---- MODULE Spec2Model ----
(***************************************************************************)
(* Model of the HTTP RPC dispatcher of shridarpatil/rpc: the service       *)
(* registry (serviceMap.register / serviceMap.get), the Server with its    *)
(* codec table, verb allow-list and hook slots, Server.ServeHTTP, and the  *)
(* JSON codec (json.Codec / json.CodecRequest).                            *)
(*                                                                         *)
(* Go strings whose characters the code inspects (method names, URL paths, *)
(* content types) are sequences of one-character strings.  HTTP verbs are  *)
(* only compared for equality and stay atomic.                             *)
(***************************************************************************)
EXTENDS Naturals, Sequences, FiniteSets, TLC

VARIABLES
    services,        \* Server.services.services: name -> service
    codecs,          \* Server.codecs: lower-cased content type -> codec
    allowedMethods,  \* Server.allowedMethods: sequence of verbs
    interceptFunc,   \* Server.interceptFunc # nil
    beforeFunc,      \* Server.beforeFunc # nil
    afterFunc,       \* Server.afterFunc # nil
    validateFunc,    \* Server.validateFunc.IsValid()
    phase,           \* "setup" (main before ListenAndServe) or "serving"
    disabled,        \* history: verbs some Disable* call has named
    ret,             \* the last call and what it returned / wrote
    inflight         \* the ServeHTTP calls in progress, one per goroutine

vars == <<services, codecs, allowedMethods, interceptFunc, beforeFunc,
          afterFunc, validateFunc, phase, disabled, ret, inflight>>

config == <<services, codecs, allowedMethods, interceptFunc, beforeFunc,
            afterFunc, validateFunc, disabled>>

-----------------------------------------------------------------------------
(* Strings                                                                 *)

LowerLetters == <<"a","b","c","d","e","f","g","h","i","j","k","l","m",
                  "n","o","p","q","r","s","t","u","v","w","x","y","z">>
UpperLetters == <<"A","B","C","D","E","F","G","H","I","J","K","L","M",
                  "N","O","P","Q","R","S","T","U","V","W","X","Y","Z">>
Digits == {"0","1","2","3","4","5","6","7","8","9"}

Range(s) == {s[i] : i \in DOMAIN s}
LowerSet == Range(LowerLetters)
UpperSet == Range(UpperLetters)

IsLower(c) == c \in LowerSet
\* unicode.IsUpper on an ASCII rune
IsUpper(c) == c \in UpperSet
IsLetter(c) == IsLower(c) \/ IsUpper(c)

\* strings.ToUpper on a one-byte string
ToUpperChar(c) ==
    IF IsLower(c) THEN UpperLetters[CHOOSE i \in DOMAIN LowerLetters : LowerLetters[i] = c]
    ELSE c

\* strings.ToLower on one byte
ToLowerChar(c) ==
    IF IsUpper(c) THEN LowerLetters[CHOOSE i \in DOMAIN UpperLetters : UpperLetters[i] = c]
    ELSE c

\* strings.ToLower
ToLower(s) == [i \in DOMAIN s |-> ToLowerChar(s[i])]

\* strings.isSeparator (ASCII): letters, digits and underscore are not
\* separators, every other ASCII character is.
isSeparator(c) == ~(IsLetter(c) \/ c \in Digits \/ c = "_")

\* strings.Title: upper-cases every letter that begins a word, i.e. the
\* first character and every letter that follows a separator.
Title(s) ==
    [i \in DOMAIN s |->
        IF i = 1 \/ isSeparator(s[i - 1]) THEN ToUpperChar(s[i]) ELSE s[i]]

\* strings.ToUpper(p[:1]) + p[1:], for a non-empty p
CapFirst(p) == [i \in DOMAIN p |-> IF i = 1 THEN ToUpperChar(p[i]) ELSE p[i]]

\* strings.Index(s, c) for a one-character c; 0 when c does not occur
\* (Go returns -1; positions here are 1-based)
RECURSIVE IndexFrom(_, _, _)
IndexFrom(s, c, i) ==
    IF i > Len(s) THEN 0 ELSE IF s[i] = c THEN i ELSE IndexFrom(s, c, i + 1)

Index(s, c) == IndexFrom(s, c, 1)

\* strings.Split(s, sep) for a one-character sep: always at least one part
RECURSIVE Split(_, _)
Split(s, sep) ==
    LET i == Index(s, sep)
    IN  IF i = 0 THEN <<s>>
        ELSE <<SubSeq(s, 1, i - 1)>> \o Split(SubSeq(s, i + 1, Len(s)), sep)

\* strings.HasPrefix
HasPrefix(s, p) == Len(s) >= Len(p) /\ SubSeq(s, 1, Len(p)) = p

\* strings.TrimPrefix
TrimPrefix(s, p) == IF HasPrefix(s, p) THEN SubSeq(s, Len(p) + 1, Len(s)) ELSE s

\* strings.Trim(s, c) for a one-character cutset
RECURSIVE Trim(_, _)
Trim(s, c) ==
    IF s = <<>> THEN s
    ELSE IF s[1] = c THEN Trim(Tail(s), c)
    ELSE IF s[Len(s)] = c THEN Trim(SubSeq(s, 1, Len(s) - 1), c)
    ELSE s

\* strings.Join(list, sep) over atomic tokens: the tokens with sep between
RECURSIVE Join(_, _)
Join(list, sep) ==
    IF list = <<>> THEN <<>>
    ELSE IF Len(list) = 1 THEN list
    ELSE <<list[1], sep>> \o Join(Tail(list), sep)

Dot == <<".">>

\* s1 + "." + s2
Dotted(svc, meth) == svc \o Dot \o meth

-----------------------------------------------------------------------------
(* Names used by the example program and by the receivers below            *)

sHelloService == <<"H","e","l","l","o","S","e","r","v","i","c","e">>
sSay == <<"S","a","y">>
sNoArgs == <<"N","o","A","r","g","s">>
sCalc == <<"C","a","l","c">>
sDiv == <<"D","i","v">>
sNop == <<"N","o","p">>
sInc == <<"I","n","c">>
sWatch == <<"W","a","t","c","h">>
sEmpty == <<"E","m","p","t","y">>
sHidden == <<"h","i","d","d","e","n">>

Nil == "nil"

\* an error value: its fixed message text and the string appended to it
Err(msg, arg) == [msg |-> msg, arg |-> arg]
\* the nil error
NoErr == Err("", <<>>)

-----------------------------------------------------------------------------
(* reflect: types, methods and receivers                                   *)

\* a named struct type of package pkg: fields maps the JSON key of each
\* exported field to the kind of its Go type, unexported counts the rest
StructT(name, pkg, fields, nUnexported) ==
    [kind |-> "struct", name |-> name, pkgPath |-> pkg,
     fields |-> fields, unexported |-> nUnexported]

NoFields == [k \in {} |-> "string"]

PtrT(elem) == [kind |-> "ptr", name |-> <<>>, pkgPath |-> "", elem |-> elem]

IntT == [kind |-> "int", name |-> <<"i","n","t">>, pkgPath |-> ""]

\* reflect.TypeOf((*error)(nil)).Elem()
ErrorT == [kind |-> "interface", name |-> <<"e","r","r","o","r">>, pkgPath |-> ""]

\* reflect.TypeOf(&http.Request{})
httpReqType ==
    PtrT(StructT(<<"R","e","q","u","e","s","t">>, "net/http", [Method |-> "string"], 1))

\* reflect.TypeOf(&struct{}{}): the dummy args type of a NoArgs method
EmptyStructPtrT == PtrT(StructT(<<>>, "", NoFields, 0))

HelloArgsT == StructT(<<"H","e","l","l","o","A","r","g","s">>, "main", [who |-> "string"], 0)
HelloReplyT == StructT(<<"H","e","l","l","o","R","e","p","l","y">>, "main", [message |-> "string"], 0)
DivArgsT == StructT(<<"D","i","v","A","r","g","s">>, "main", [a |-> "int", b |-> "int"], 0)
DivReplyT == StructT(<<"D","i","v","R","e","p","l","y">>, "main", [q |-> "int"], 0)
\* a reply struct with a channel field, which encoding/json cannot encode
WatchReplyT == StructT(<<"W","a","t","c","h","R","e","p","l","y">>, "main", [events |-> "chan"], 0)
\* an args struct with one unexported field and no exported one
NopArgsT == StructT(<<"N","o","p","A","r","g","s">>, "main", NoFields, 1)

\* the receiver type as reflect sees a method's first input
RcvrT(typeName) == PtrT(StructT(typeName, "main", NoFields, 0))

\* a reflect.Method: name, PkgPath ("" when exported), Type.In, Type.Out;
\* fails tells whether the Go method can return a non-nil error
Method(name, pkgPath, in, out, fails) ==
    [name |-> name, pkgPath |-> pkgPath, in |-> in, out |-> out, fails |-> fails]

\* example/main.go: HelloService with Say (args) and NoArgs
HelloServiceRcvr ==
    [typeName |-> sHelloService,
     methods |-> {
        Method(sSay, "", <<RcvrT(sHelloService), httpReqType,
                           PtrT(HelloArgsT), PtrT(HelloReplyT)>>, <<ErrorT>>, FALSE),
        Method(sNoArgs, "", <<RcvrT(sHelloService), httpReqType,
                              PtrT(HelloReplyT)>>, <<ErrorT>>, FALSE)}]

\* a receiver with a suitable method that can fail, one whose args struct
\* has no exported field, one whose args are a *int, one whose reply does
\* not encode, and several methods register must skip
CalcRcvr ==
    [typeName |-> sCalc,
     methods |-> {
        Method(sDiv, "", <<RcvrT(sCalc), httpReqType,
                           PtrT(DivArgsT), PtrT(DivReplyT)>>, <<ErrorT>>, TRUE),
        Method(sNop, "", <<RcvrT(sCalc), httpReqType,
                           PtrT(NopArgsT), PtrT(DivReplyT)>>, <<ErrorT>>, FALSE),
        Method(sInc, "", <<RcvrT(sCalc), httpReqType,
                           PtrT(IntT), PtrT(DivReplyT)>>, <<ErrorT>>, FALSE),
        Method(sWatch, "", <<RcvrT(sCalc), httpReqType,
                             PtrT(WatchReplyT)>>, <<ErrorT>>, FALSE),
        \* one input only
        Method(<<"R","e","s","e","t">>, "", <<RcvrT(sCalc)>>, <<ErrorT>>, FALSE),
        \* first argument is not *http.Request
        Method(<<"P","i","n","g">>, "", <<RcvrT(sCalc), PtrT(DivArgsT),
                           PtrT(DivArgsT), PtrT(DivReplyT)>>, <<ErrorT>>, FALSE),
        \* args is not a pointer
        Method(<<"N","e","g">>, "", <<RcvrT(sCalc), httpReqType,
                           IntT, PtrT(DivReplyT)>>, <<ErrorT>>, FALSE),
        \* no error result
        Method(<<"S","u","m">>, "", <<RcvrT(sCalc), httpReqType,
                           PtrT(DivArgsT), PtrT(DivReplyT)>>, <<>>, FALSE),
        \* result is not error
        Method(<<"A","b","s">>, "", <<RcvrT(sCalc), httpReqType,
                           PtrT(DivReplyT)>>, <<IntT>>, FALSE)}]

\* a receiver none of whose methods is suitable
EmptyRcvr ==
    [typeName |-> sEmpty,
     methods |-> {
        Method(<<"S","t","r","i","n","g">>, "", <<RcvrT(sEmpty)>>, <<IntT>>, FALSE),
        Method(<<"S","e","t">>, "", <<RcvrT(sEmpty), httpReqType,
                           IntT>>, <<ErrorT>>, FALSE)}]

\* a receiver whose type name is not exported
HiddenRcvr ==
    [typeName |-> sHidden,
     methods |-> {
        Method(<<"G","e","t">>, "", <<RcvrT(sHidden), httpReqType,
                           PtrT(HelloReplyT)>>, <<ErrorT>>, FALSE)}]

-----------------------------------------------------------------------------
(* serviceMap                                                              *)

\* isExported: utf8.DecodeRuneInString(name) is upper case
isExported(name) == name # <<>> /\ IsUpper(name[1])

\* the loop "for t.Kind() == reflect.Ptr { t = t.Elem() }"
RECURSIVE Deref(_)
Deref(t) == IF t.kind = "ptr" THEN Deref(t.elem) ELSE t

isExportedOrBuiltin(t) ==
    LET u == Deref(t) IN isExported(u.name) \/ u.pkgPath = ""

\* the body of register's loop up to its last continue: does the method
\* get an entry in s.methods
Suitable(method) ==
    /\ isExported(method.name)
    /\ method.pkgPath = ""
    /\ Len(method.in) \in {3, 4}
    /\ method.in[2] = httpReqType
    /\ IF Len(method.in) = 4
       THEN /\ method.in[3].kind = "ptr"
            /\ isExportedOrBuiltin(method.in[3])
            /\ method.in[4].kind = "ptr"
            /\ isExportedOrBuiltin(method.in[4])
       ELSE /\ method.in[3].kind = "ptr"
            /\ isExportedOrBuiltin(method.in[3])
    /\ Len(method.out) = 1
    /\ method.out[1] = ErrorT

\* the serviceMethod register stores for a suitable method
ServiceMethod(method) ==
    LET noArgs == Len(method.in) = 3
        argType == IF noArgs THEN EmptyStructPtrT ELSE method.in[3]
        replyType == IF noArgs THEN method.in[3] ELSE method.in[4]
    IN  [method |-> [name |-> method.name, fails |-> method.fails],
         argsType |-> argType.elem,
         replyType |-> replyType.elem, noArgs |-> noArgs]

ErrNotExported == "rpc: type is not exported"
ErrAlreadyDefined == "rpc: service already defined"
ErrNoMethods == "rpc: no exported methods of suitable type"

\* a register that replaces a service already registered under the name
register_Replaces(m, rcvr, name) ==
    LET sname == IF name # <<>> THEN name ELSE rcvr.typeName
        good == {md \in rcvr.methods : Suitable(md)}
        methods == [n \in {md.name : md \in good} |->
                       ServiceMethod(CHOOSE md \in good : md.name = n)]
    IN  IF name = <<>> /\ ~isExported(sname)
        THEN [err |-> ErrNotExported, services |-> m]
        ELSE IF good = {}
        THEN [err |-> ErrNoMethods, services |-> m]
        ELSE [err |-> IF sname \in DOMAIN m THEN ErrAlreadyDefined ELSE Nil,
              services |-> [n \in DOMAIN m \cup {sname} |->
                  IF n = sname
                  THEN [name |-> sname, rcvr |-> rcvr.typeName, methods |-> methods]
                  ELSE m[n]]]

\* serviceMap.register: the error returned and the map afterwards
register(m, rcvr, name) ==
    LET sname == IF name # <<>> THEN name ELSE rcvr.typeName
        good == {md \in rcvr.methods : Suitable(md)}
        methods == [n \in {md.name : md \in good} |->
                       ServiceMethod(CHOOSE md \in good : md.name = n)]
    IN  IF name = <<>> /\ ~isExported(sname)
        THEN [err |-> ErrNotExported, services |-> m]
        ELSE IF sname \in DOMAIN m
        THEN [err |-> ErrAlreadyDefined, services |-> m]
        ELSE IF good = {}
        THEN [err |-> ErrNoMethods, services |-> m]
        ELSE [err |-> Nil,
              services |-> [n \in DOMAIN m \cup {sname} |->
                  IF n = sname
                  THEN [name |-> sname, rcvr |-> rcvr.typeName, methods |-> methods]
                  ELSE m[n]]]

ErrIllFormed(method) == Err("rpc: service/method request ill-formed: ", method)
ErrNoService(part) == Err("rpc: can't find service ", part)
ErrNoMethod(part) == Err("rpc: can't find method ", part)

\* a get that looks the two segments up as given, without strings.Title
get_Exact(m, method) ==
    LET parts == Split(method, ".")
    IN  IF Len(parts) # 2
        THEN [err |-> ErrIllFormed(method), service |-> Nil, method |-> Nil]
        ELSE LET p1 == parts[1]
                 p2 == parts[2]
             IN  IF p1 \notin DOMAIN m
                 THEN [err |-> ErrNoService(p1), service |-> Nil, method |-> Nil]
                 ELSE IF p2 \notin DOMAIN m[p1].methods
                 THEN [err |-> ErrNoMethod(p2), service |-> Nil, method |-> Nil]
                 ELSE [err |-> NoErr, service |-> m[p1], method |-> m[p1].methods[p2]]

\* serviceMap.get: the error, and the service and method found
get(m, method) ==
    LET parts == Split(method, ".")
    IN  IF Len(parts) # 2
        THEN [err |-> ErrIllFormed(method), service |-> Nil, method |-> Nil]
        ELSE LET p1 == Title(parts[1])
                 p2 == Title(parts[2])
             IN  IF p1 \notin DOMAIN m
                 THEN [err |-> ErrNoService(p1), service |-> Nil, method |-> Nil]
                 ELSE IF p2 \notin DOMAIN m[p1].methods
                 THEN [err |-> ErrNoMethod(p2), service |-> Nil, method |-> Nil]
                 ELSE [err |-> NoErr, service |-> m[p1], method |-> m[p1].methods[p2]]

-----------------------------------------------------------------------------
(* HTTP requests and responses                                             *)

sRpc == <<"/","r","p","c">>
sRpcSlash == <<"/","r","p","c","/">>
sApplicationJson ==
    <<"a","p","p","l","i","c","a","t","i","o","n","/","j","s","o","n">>

StatusOK == 200
StatusBadRequest == 400
StatusNotFound == 404
StatusMethodNotAllowed == 405
StatusUnsupportedMediaType == 415

\* the ResponseWriter before anything was written to it
NoResponse ==
    [written |-> FALSE, status |-> 0, contentType |-> "", nosniff |-> FALSE,
     body |-> [kind |-> "none"]]

\* rpc.WriteError: a plain-text response; msg is the fixed text, arg the
\* string and list the tokens formatted into it
WriteError(w, status, msg, arg, list) ==
    [w EXCEPT !.written = TRUE, !.status = status,
              !.contentType = "text/plain; charset=utf-8",
              !.body = [kind |-> "text", msg |-> msg, arg |-> arg, list |-> list]]

\* r.Form.Get(key): the first value of key, "" when absent
FormGet(form, key) ==
    IF key \in DOMAIN form /\ form[key] # <<>> THEN form[key][1] ELSE <<>>

-----------------------------------------------------------------------------
(* JSON codec                                                              *)

JsonNull == [null |-> TRUE]

\* a (nil) channel held in a struct field
ChanValue == [k |-> "chan", v |-> 0]

ErrUnsupportedType == "json: unsupported type: "

\* json.Marshal(res) returns an UnsupportedTypeError when the result holds
\* a channel
MarshalFails(res) ==
    /\ ~res.Result.null
    /\ \E f \in DOMAIN res.Result.value : res.Result.value[f] = ChanValue

\* CodecRequest.writeServerResponse: the JSON response, or a plain-text
\* 400 when json.Marshal fails
writeServerResponse(w, status, res) ==
    IF MarshalFails(res)
    THEN WriteError(w, StatusBadRequest, ErrUnsupportedType, <<"c","h","a","n">>, <<>>)
    ELSE [w EXCEPT !.written = TRUE, !.status = status,
                   !.contentType = "application/json; charset=utf-8",
                   !.body = [kind |-> "json", result |-> res.Result,
                             error |-> res.Error]]

\* CodecRequest.WriteResponse
CodecWriteResponse(w, reply) ==
    writeServerResponse(w, StatusOK,
        [Result |-> [null |-> FALSE, value |-> reply], Error |-> JsonNull])

\* CodecRequest.WriteError: the status passed in is ignored, 400 is written
CodecWriteError(w, status, err) ==
    writeServerResponse(w, StatusBadRequest,
        [Result |-> JsonNull, Error |-> [null |-> FALSE, value |-> err]])

\* a value that makes a slice expression of the code panic
Panic == [panic |-> TRUE, s |-> <<>>]
Ok(s) == [panic |-> FALSE, s |-> s]

\* the last block of extractMethodFromURL: parts[0][:1] and parts[1][:1]
\* panic on an empty part
FormatMethodName(methodName) ==
    LET parts == Split(methodName, ".")
    IN  IF methodName = <<>> \/ Len(parts) # 2 THEN Ok(methodName)
        ELSE IF parts[1] = <<>> \/ parts[2] = <<>> THEN Panic
        ELSE Ok(Dotted(CapFirst(parts[1]), CapFirst(parts[2])))

\* the name extractMethodFromURL finds before formatting it
UrlMethodName(r) ==
    LET fromPrefix ==
            IF HasPrefix(r.path, sRpcSlash) THEN TrimPrefix(r.path, sRpcSlash) ELSE <<>>
        pathParts == Split(Trim(r.path, "/"), "/")
        fromPath ==
            IF fromPrefix # <<>> THEN fromPrefix
            ELSE IF pathParts[Len(pathParts)] # <<>> THEN pathParts[Len(pathParts)]
            ELSE <<>>
    IN  IF fromPath # <<>> THEN fromPath ELSE FormGet(r.form, "method")

extractMethodFromURL(r) == FormatMethodName(UrlMethodName(r))

ErrMethodMissing == Err("rpc: method name missing", <<>>)
ErrParseForm == Err("invalid URL escape", <<>>)
ErrBadBody == Err("json: cannot decode request body", <<>>)
ErrUnmarshal == Err("json: cannot unmarshal params", <<>>)

NoParams == [kind |-> "absent"]
NoRequest == [Method |-> <<>>, Params |-> NoParams]

\* a CodecRequest; request is meaningful only while err is nil
CodecRequest(request, err) == [request |-> request, err |-> err]

\* convertURLParamsToJSON: one value becomes a JSON string, several an array
convertURLParamsToJSON(form) ==
    [kind |-> "object",
     fields |-> [k \in {x \in DOMAIN form \ {"method"} : form[x] # <<>>} |->
                    IF Len(form[k]) = 1
                    THEN [k |-> "string", v |-> form[k][1]]
                    ELSE [k |-> "array", v |-> form[k]]]]

\* newGetCodecRequest
newGetCodecRequest(r, methodFromURL) ==
    IF methodFromURL = <<>>
    THEN CodecRequest(NoRequest, ErrMethodMissing)
    ELSE CodecRequest([Method |-> methodFromURL,
                       Params |-> convertURLParamsToJSON(r.form)], NoErr)

\* a newPostCodecRequest that prefers the URL's name to the body's
newPostCodecRequest_UrlFirst(r, methodFromURL) ==
    IF r.body.ok
    THEN CodecRequest(
            [Method |-> IF methodFromURL # <<>>
                        THEN methodFromURL ELSE r.body.method,
             Params |-> r.body.params], NoErr)
    ELSE IF methodFromURL # <<>>
    THEN CodecRequest([Method |-> methodFromURL, Params |-> NoParams], NoErr)
    ELSE CodecRequest(NoRequest, ErrBadBody)

\* newPostCodecRequest: r.body.ok tells whether the body decodes as a
\* serverRequest
newPostCodecRequest(r, methodFromURL) ==
    IF r.body.ok
    THEN CodecRequest(
            [Method |-> IF methodFromURL # <<>> /\ r.body.method = <<>>
                        THEN methodFromURL ELSE r.body.method,
             Params |-> r.body.params], NoErr)
    ELSE IF methodFromURL # <<>>
    THEN CodecRequest([Method |-> methodFromURL, Params |-> NoParams], NoErr)
    ELSE CodecRequest(NoRequest, ErrBadBody)

\* Codec.NewRequest: the CodecRequest, or a panic
NewRequest(r) ==
    IF r.formErr
    THEN [panic |-> FALSE, c |-> CodecRequest(NoRequest, ErrParseForm)]
    ELSE LET u == extractMethodFromURL(r)
         IN  IF u.panic THEN [panic |-> TRUE, c |-> CodecRequest(NoRequest, NoErr)]
             ELSE [panic |-> FALSE,
                   c |-> IF r.verb = "GET" THEN newGetCodecRequest(r, u.s)
                         ELSE newPostCodecRequest(r, u.s)]

\* CodecRequest.Method
CodecMethod(c) ==
    IF c.err = NoErr THEN [method |-> c.request.Method, err |-> NoErr]
    ELSE [method |-> <<>>, err |-> c.err]

\* the zero value of a type: 0 for an int; for a struct "" and 0 in its
\* exported fields
Zero(t) ==
    IF t.kind # "struct" THEN [k |-> "number", v |-> 0]
    ELSE [k \in DOMAIN t.fields |->
             IF t.fields[k] = "string" THEN [k |-> "string", v |-> ""]
             ELSE IF t.fields[k] = "chan" THEN ChanValue
             ELSE [k |-> "number", v |-> 0]]

JsonKindOf(goKind) == IF goKind = "string" THEN "string" ELSE "number"

\* json.Unmarshal(params, args) for args a pointer to a value of type t.
\* For an int, params must be a number. For a struct, params must be an
\* object, and each key that names a field must carry a value of that
\* field's kind; other keys are ignored
Unmarshal(params, t) ==
    IF t.kind # "struct"
    THEN [err |-> IF params.kind = "number" THEN NoErr ELSE ErrUnmarshal,
          args |-> Zero(t)]
    ELSE IF params.kind # "object" THEN [err |-> ErrUnmarshal, args |-> Zero(t)]
    ELSE LET keys == DOMAIN params.fields \cap DOMAIN t.fields
             bad == {k \in keys : params.fields[k].k # JsonKindOf(t.fields[k])}
         IN  [err |-> IF bad = {} THEN NoErr ELSE ErrUnmarshal,
              args |-> [k \in DOMAIN t.fields |->
                           IF k \in keys \ bad THEN params.fields[k] ELSE Zero(t)[k]]]

\* CodecRequest.ReadRequest: absent params are read as "{}"
ReadRequest(c, t) ==
    IF c.err # NoErr THEN [err |-> c.err, args |-> Zero(t)]
    ELSE IF c.request.Params.kind # "absent" THEN Unmarshal(c.request.Params, t)
    ELSE Unmarshal([kind |-> "object", fields |-> NoFields], t)

-----------------------------------------------------------------------------
(* Server                                                                  *)

\* NewServer: the allow-list a new server starts with
DefaultMethods == <<"POST", "GET", "DELETE", "PUT">>

\* a removeMethod that drops the first verb of the list, whichever it is
removeMethod_First(allowed, methodToRemove) ==
    IF allowed = <<>> THEN allowed ELSE Tail(allowed)

\* removeMethod: the allow-list without methodToRemove, order kept
removeMethod(allowed, methodToRemove) ==
    SelectSeq(allowed, LAMBDA m : m # methodToRemove)

\* capitalizeMethod: parts[0][:1] and parts[1][:1] panic on an empty part
capitalizeMethod(method) ==
    LET parts == Split(method, ".")
    IN  IF Len(parts) # 2 THEN Ok(method)
        ELSE IF parts[1] = <<>> \/ parts[2] = <<>> THEN Panic
        ELSE Ok(Dotted(CapFirst(parts[1]), CapFirst(parts[2])))

ErrMethodNotFound(method) == Err("rpc: method not found: ", method)

\* Server.getNormalizedMethod: a panic, or the error and the name found
getNormalizedMethod(S, method) ==
    IF get(S.services, method).err = NoErr
    THEN [panic |-> FALSE, err |-> NoErr, method |-> method]
    ELSE LET cap == capitalizeMethod(method)
         IN  IF cap.panic
             THEN [panic |-> TRUE, err |-> NoErr, method |-> <<>>]
             ELSE IF cap.s # method /\ get(S.services, cap.s).err = NoErr
             THEN [panic |-> FALSE, err |-> NoErr, method |-> cap.s]
             ELSE [panic |-> FALSE, err |-> ErrMethodNotFound(method), method |-> <<>>]

\* ServeHTTP, the verb check: is r.Method in s.allowedMethods
methodAllowed(S, r) == \E i \in DOMAIN S.allowedMethods : S.allowedMethods[i] = r.verb

\* ServeHTTP, the path block: methodFromPath ("" when the path does not
\* carry a name), the lookup error, or a panic
MethodFromPath(S, r) ==
    LET rest == TrimPrefix(r.path, sRpcSlash)
    IN  IF HasPrefix(r.path, sRpcSlash) /\ rest # <<>>
        THEN getNormalizedMethod(S, rest)
        ELSE [panic |-> FALSE, err |-> NoErr, method |-> <<>>]

\* the Content-Type header up to its first ";"
StripParams(contentType) ==
    LET idx == Index(contentType, ";")
    IN  IF idx # 0 THEN SubSeq(contentType, 1, idx - 1) ELSE contentType

\* ServeHTTP, codec selection: pick is the key the range over the codec map
\* visits first; codec is Nil when the map is empty
SelectCodec(S, r, pick) ==
    LET n == Cardinality(DOMAIN S.codecs)
        any == IF n = 0 THEN Nil ELSE S.codecs[pick]
        contentType == StripParams(r.contentType)
    IN  IF r.verb = "GET"
        THEN [ok |-> TRUE, contentType |-> <<>>,
              codec |-> IF n = 1 THEN any
                        ELSE IF sApplicationJson \in DOMAIN S.codecs
                        THEN S.codecs[sApplicationJson]
                        ELSE any]
        ELSE IF contentType = <<>> /\ n = 1
        THEN [ok |-> TRUE, contentType |-> contentType, codec |-> any]
        ELSE IF ToLower(contentType) \in DOMAIN S.codecs
        THEN [ok |-> TRUE, contentType |-> contentType,
              codec |-> S.codecs[ToLower(contentType)]]
        ELSE [ok |-> FALSE, contentType |-> contentType, codec |-> Nil]

\* one entry of the record of what a ServeHTTP call did, in order: ev is
\* the step, method the method name it had in hand, req the request handle
\* passed on, err and status the error and status it produced or was given,
\* target the registered method called or, for the intercept function, the
\* request handle it returned
Ev(ev, method, req, err, status, target) ==
    [ev |-> ev, method |-> method, req |-> req, err |-> err, status |-> status,
     target |-> target]

\* getNormalizedMethod called with the name taken from the path
LookupPathEv(name) == Ev("lookup-path", name, "", NoErr, 0, <<>>)
\* codec.NewRequest called
CodecEv == Ev("codec", <<>>, "", NoErr, 0, <<>>)
\* getNormalizedMethod called with the name codecReq.Method() returned
LookupCodecEv(name) == Ev("lookup-codec", name, "", NoErr, 0, <<>>)
\* codecReq.ReadRequest called
DecodeEv(err) == Ev("decode", <<>>, "", err, 0, <<>>)
\* the response written
WriteEv(w) == Ev("write", <<>>, "", NoErr, w.status, <<>>)

\* what a ServeHTTP call left behind: whether it panicked, the response,
\* the steps it took, and the method name its hook chain ran with ("" when
\* it did not get that far)
Out(panic, w, log, method) ==
    [panic |-> panic, w |-> w, log |-> log, method |-> method]

\* a return of ServeHTTP right after writing w
Return(pre, w) == Out(FALSE, w, pre \o <<WriteEv(w)>>, <<>>)

\* a panic before anything was written
Crash(pre) == Out(TRUE, NoResponse, pre, <<>>)

ErrValidate == Err("validation failed", <<>>)
ErrMethodFailed == Err("method failed", <<>>)

\* the registered Go methods: Say and NoArgs of the example, and any
\* other method, which fails when fail is set and its Go body can fail
Call(methodSpec, args, reply, fail) ==
    IF methodSpec.method.name = sSay
    THEN [err |-> NoErr, reply |-> [message |-> <<"Hello, ", args.who.v, "!">>]]
    ELSE IF methodSpec.method.name = sNoArgs
    THEN [err |-> NoErr, reply |-> [message |-> <<"Hello!">>]]
    ELSE IF fail /\ methodSpec.method.fails
    THEN [err |-> ErrMethodFailed, reply |-> reply]
    ELSE [err |-> NoErr, reply |-> reply]

\* ServeHTTP: is the validate function called for this method
CallsValidate(S, methodSpec) == S.validateFunc /\ ~methodSpec.noArgs

\* an invocation that goes ahead whatever the hooks returned
CallsMethod_Always(errValue) == TRUE

\* ServeHTTP: is the method called after validation
CallsMethod(errValue) == errValue = NoErr

\* ServeHTTP: the status for the outcome of validate and the method
StatusFor(errResult) == IF errResult # NoErr THEN StatusBadRequest ELSE StatusOK

\* ServeHTTP: is the after function called at the end of the hook chain
CallsAfter(S) == S.afterFunc

\* a hook chain that goes on with the request it was given, whatever the
\* intercept function returned
HookChain_SameRequest(S, nd, pre, method, serviceSpec, methodSpec, args) ==
    LET req == "r"
        target == Dotted(serviceSpec.name, methodSpec.method.name)
        logI == IF S.interceptFunc
                THEN <<Ev("intercept", method, "r", NoErr, 0, nd.intercept)>> ELSE <<>>
        logB == IF S.beforeFunc
                THEN <<Ev("before", method, req, NoErr, 0, <<>>)>> ELSE <<>>
        reply == Zero(methodSpec.replyType)
        validated == CallsValidate(S, methodSpec)
        errV == IF validated /\ nd.validateErr THEN ErrValidate ELSE NoErr
        logV == IF validated
                THEN <<Ev("validate", method, req, errV, 0, <<>>)>> ELSE <<>>
        called == CallsMethod(errV)
        res == IF called THEN Call(methodSpec, args, reply, nd.methodErr)
               ELSE [err |-> errV, reply |-> reply]
        logM == IF called
                THEN <<Ev("invoke", method, req, res.err, 0, target)>> ELSE <<>>
        statusCode == StatusFor(res.err)
        w0 == [NoResponse EXCEPT !.nosniff = TRUE]
        w == IF res.err = NoErr THEN CodecWriteResponse(w0, res.reply)
             ELSE CodecWriteError(w0, statusCode, res.err)
        logA == IF CallsAfter(S)
                THEN <<Ev("after", method, req, res.err, statusCode, <<>>)>> ELSE <<>>
    IN  Out(FALSE, w,
            pre \o logI \o logB \o logV \o logM \o <<WriteEv(w)>> \o logA, method)

\* ServeHTTP from the intercept function to the after function
HookChain(S, nd, pre, method, serviceSpec, methodSpec, args) ==
    LET req == IF S.interceptFunc /\ nd.intercept # Nil THEN nd.intercept ELSE "r"
        target == Dotted(serviceSpec.name, methodSpec.method.name)
        logI == IF S.interceptFunc
                THEN <<Ev("intercept", method, "r", NoErr, 0, nd.intercept)>> ELSE <<>>
        logB == IF S.beforeFunc
                THEN <<Ev("before", method, req, NoErr, 0, <<>>)>> ELSE <<>>
        reply == Zero(methodSpec.replyType)
        validated == CallsValidate(S, methodSpec)
        errV == IF validated /\ nd.validateErr THEN ErrValidate ELSE NoErr
        logV == IF validated
                THEN <<Ev("validate", method, req, errV, 0, <<>>)>> ELSE <<>>
        called == CallsMethod(errV)
        res == IF called THEN Call(methodSpec, args, reply, nd.methodErr)
               ELSE [err |-> errV, reply |-> reply]
        logM == IF called
                THEN <<Ev("invoke", method, req, res.err, 0, target)>> ELSE <<>>
        statusCode == StatusFor(res.err)
        w0 == [NoResponse EXCEPT !.nosniff = TRUE]
        w == IF res.err = NoErr THEN CodecWriteResponse(w0, res.reply)
             ELSE CodecWriteError(w0, statusCode, res.err)
        logA == IF CallsAfter(S)
                THEN <<Ev("after", method, req, res.err, statusCode, <<>>)>> ELSE <<>>
    IN  Out(FALSE, w,
            pre \o logI \o logB \o logV \o logM \o <<WriteEv(w)>> \o logA, method)

\* ServeHTTP: argsType.NumField() panics unless argsType is a struct
NumFieldPanics(argsType) == argsType.kind # "struct"

\* ServeHTTP: the loop over argsType's fields
hasExportedFields(argsType) == DOMAIN argsType.fields # {}

\* a handler that writes the decode error and goes on to the hook chain
Handle_GoesOn(S, nd, pre, method, serviceSpec, methodSpec, c) ==
    LET rd == IF ~methodSpec.noArgs THEN ReadRequest(c, methodSpec.argsType)
              ELSE [err |-> NoErr, args |-> Zero(EmptyStructPtrT.elem)]
        log == IF ~methodSpec.noArgs THEN pre \o <<DecodeEv(rd.err)>> ELSE pre
    IN  IF ~methodSpec.noArgs /\ rd.err # NoErr /\ NumFieldPanics(methodSpec.argsType)
        THEN Crash(log)
        ELSE IF ~methodSpec.noArgs /\ rd.err # NoErr
                /\ hasExportedFields(methodSpec.argsType)
        THEN HookChain(S, nd,
                 log \o <<WriteEv(CodecWriteError(NoResponse, StatusBadRequest, rd.err))>>,
                 method, serviceSpec, methodSpec, rd.args)
        ELSE HookChain(S, nd, log, method, serviceSpec, methodSpec, rd.args)

\* ServeHTTP, argument decoding, then the hook chain
Handle(S, nd, pre, method, serviceSpec, methodSpec, c) ==
    LET rd == IF ~methodSpec.noArgs THEN ReadRequest(c, methodSpec.argsType)
              ELSE [err |-> NoErr, args |-> Zero(EmptyStructPtrT.elem)]
        log == IF ~methodSpec.noArgs THEN pre \o <<DecodeEv(rd.err)>> ELSE pre
    IN  IF ~methodSpec.noArgs /\ rd.err # NoErr /\ NumFieldPanics(methodSpec.argsType)
        THEN Crash(log)
        ELSE IF ~methodSpec.noArgs /\ rd.err # NoErr
                /\ hasExportedFields(methodSpec.argsType)
        THEN Return(log, CodecWriteError(NoResponse, StatusBadRequest, rd.err))
        ELSE HookChain(S, nd, log, method, serviceSpec, methodSpec, rd.args)

\* a resolution that asks the codec before it looks at the path's name
ResolveMethod_CodecFirst(S, methodFromPath, c) ==
    LET cm == CodecMethod(c)
    IN  IF cm.err = NoErr
        THEN LET nm == getNormalizedMethod(S, cm.method)
             IN  [panic |-> nm.panic, err |-> nm.err, method |-> nm.method,
                  asked |-> TRUE, name |-> cm.method]
        ELSE IF methodFromPath # <<>>
        THEN [panic |-> FALSE, err |-> NoErr, method |-> methodFromPath,
              asked |-> FALSE, name |-> <<>>]
        ELSE [panic |-> FALSE, err |-> cm.err, method |-> <<>>,
              asked |-> FALSE, name |-> <<>>]

\* ServeHTTP: the method name to dispatch on, from the path when it gave
\* one, else from the codec request and normalized; asked tells whether
\* getNormalizedMethod was called with the codec's name
ResolveMethod(S, methodFromPath, c) ==
    IF methodFromPath # <<>>
    THEN [panic |-> FALSE, err |-> NoErr, method |-> methodFromPath,
          asked |-> FALSE, name |-> <<>>]
    ELSE LET cm == CodecMethod(c)
         IN  IF cm.err # NoErr
             THEN [panic |-> FALSE, err |-> cm.err, method |-> <<>>,
                   asked |-> FALSE, name |-> <<>>]
             ELSE LET nm == getNormalizedMethod(S, cm.method)
                  IN  [panic |-> nm.panic, err |-> nm.err, method |-> nm.method,
                       asked |-> TRUE, name |-> cm.method]

\* ServeHTTP from the codec request on
Dispatch(S, nd, pre, methodFromPath, c) ==
    LET m == ResolveMethod(S, methodFromPath, c)
        log == IF m.asked THEN pre \o <<LookupCodecEv(m.name)>> ELSE pre
    IN  IF m.panic THEN Crash(log)
        ELSE IF m.err # NoErr
        THEN Return(log, CodecWriteError(NoResponse, StatusBadRequest, m.err))
        ELSE LET g == get(S.services, m.method)
             IN  IF g.err # NoErr
                 THEN Return(log, CodecWriteError(NoResponse, StatusBadRequest, g.err))
                 ELSE Handle(S, nd, log, m.method, g.service, g.method, c)

\* Server.ServeHTTP
ServeHTTP(S, r, nd) ==
    IF ~methodAllowed(S, r)
    THEN Return(<<>>, WriteError(NoResponse, StatusMethodNotAllowed,
                    "rpc: only %s methods are allowed, received %s",
                    <<r.verb>>, Join(S.allowedMethods, ",")))
    ELSE LET rest == TrimPrefix(r.path, sRpcSlash)
             p == MethodFromPath(S, r)
             log == IF HasPrefix(r.path, sRpcSlash) /\ rest # <<>>
                    THEN <<LookupPathEv(rest)>> ELSE <<>>
         IN  IF p.panic THEN Crash(log)
             ELSE IF p.err # NoErr
             THEN Return(log, WriteError(NoResponse, StatusNotFound,
                                  p.err.msg, p.err.arg, <<>>))
             ELSE LET sel == SelectCodec(S, r, nd.pick)
                  IN  IF ~sel.ok
                      THEN Return(log, WriteError(NoResponse,
                                      StatusUnsupportedMediaType,
                                      "rpc: unrecognized Content-Type: ",
                                      sel.contentType, <<>>))
                      ELSE IF sel.codec = Nil THEN Crash(log)
                      ELSE LET nr == NewRequest(r)
                           IN  IF nr.panic THEN Crash(log \o <<CodecEv>>)
                               ELSE Dispatch(S, nd, log \o <<CodecEv>>, p.method, nr.c)

-----------------------------------------------------------------------------
(* Inputs                                                                  *)

sLowerHello == ToLower(sHelloService)
sCamelHello == <<"h">> \o Tail(sHelloService)
sMissing == <<"M","i","s","s","i","n","g">>
sApi == <<"/","a","p","i","/">>
sRoot == <<"/">>
sTextXml == <<"t","e","x","t","/","x","m","l">>
sJsonCharset ==
    <<"A","p","p","l","i","c","a","t","i","o","n","/","J","S","O","N",
      ";"," ","c","h","a","r","s","e","t","=","u","t","f","-","8">>

mHelloSay == Dotted(sHelloService, sSay)
mHelloNoArgs == Dotted(sHelloService, sNoArgs)
mLowerSay == Dotted(sLowerHello, ToLower(sSay))
mCamelNoArgs == Dotted(sCamelHello, <<"n">> \o Tail(sNoArgs))
mMissing == Dotted(sLowerHello, ToLower(sMissing))
mCalcDiv == Dotted(sCalc, sDiv)
mCalcNop == Dotted(sCalc, sNop)
mCalcInc == Dotted(sCalc, sInc)
mCalcWatch == Dotted(sCalc, sWatch)
mDotSay == Dot \o ToLower(sSay)

\* the receivers and explicit names main may pass to RegisterService
ServeCandidates ==
    {<<HelloServiceRcvr, <<>>>>, <<CalcRcvr, <<>>>>, <<EmptyRcvr, <<>>>>}

\* explicit service names, over the alphabet of the names looked up
sAb == <<"A","b">>
sADashB == <<"A","-","B">>
sLowerAB == <<"a","B">>

\* the receivers and names a program may pass to RegisterService: names
\* that collide, a receiver with no suitable method, an unexported type
RegCandidates ==
    {<<HelloServiceRcvr, <<>>>>, <<HelloServiceRcvr, sAb>>, <<CalcRcvr, sAb>>,
     <<CalcRcvr, sADashB>>, <<HelloServiceRcvr, sLowerAB>>,
     <<EmptyRcvr, <<>>>>, <<EmptyRcvr, sAb>>, <<HiddenRcvr, <<>>>>}

\* the longest service segment of the generated names looked up
MaxSvcLen == 3

NameAlphabet == {"a", "A", "b", "B", "-"}

\* every string over NameAlphabet of at most n characters
Strings(n) == UNION {[1..k -> NameAlphabet] : k \in 0..n}

\* the names passed to get: every service segment up to MaxSvcLen and the
\* spellings of HelloService, with several spellings of the method
\* segment, and names with no or two dots
LookupNames ==
    LET svcs == Strings(MaxSvcLen) \cup {sHelloService, sLowerHello, sCamelHello}
        meths == {sSay, ToLower(sSay), <<"s","A","y">>, sDiv, ToLower(sDiv),
                  <<"n">> \o Tail(sNoArgs), <<>>}
    IN  {Dotted(x, y) : x \in svcs, y \in meths}
        \cup {sAb, <<>>, Dotted(Dotted(sAb, sSay), sSay)}

\* the content types main may pass to RegisterCodec
CodecTypes == {<<"A","p","p","l","i","c","a","t","i","o","n","/","J","S","O","N">>,
               sTextXml}

Verbs == {"GET", "POST", "PUT", "DELETE", "PATCH"}

NoForm == [k \in {} |-> <<>>]
FormWho(vals) == [who |-> vals]
FormMethod(m) == [method |-> <<m>>]
FormBoth(m, vals) == [method |-> <<m>>, who |-> vals]

\* a body that does not decode (empty, or not a JSON object)
BadBody == [ok |-> FALSE, method |-> <<>>, params |-> NoParams]
Body(method, params) == [ok |-> TRUE, method |-> method, params |-> params]
Object(fields) == [kind |-> "object", fields |-> fields]
JString(v) == [k |-> "string", v |-> v]
JNumber(v) == [k |-> "number", v |-> v]
WhoWorld == Object([who |-> JString("World")])

Request(verb, path, contentType, form, formErr, body) ==
    [verb |-> verb, path |-> path, contentType |-> contentType,
     form |-> form, formErr |-> formErr, body |-> body]

\* GET requests: the path and the query string vary
GetRequests ==
    {Request("GET", path, <<>>, form, FALSE, BadBody) :
        path \in {sRpcSlash \o mLowerSay, sRpcSlash \o mHelloSay},
        form \in {FormWho(<<"World">>), FormWho(<<"a", "b">>),
                  FormMethod(mHelloNoArgs)}}
    \cup {Request("GET", path, <<>>, NoForm, FALSE, BadBody) :
        path \in {sRpcSlash \o mCamelNoArgs, sRpcSlash \o mMissing,
                  sRpcSlash \o mDotSay, sApi \o mDotSay, sApi \o mCalcDiv}}
    \cup {Request("GET", path, <<>>, form, FALSE, BadBody) :
        path \in {sRpc, sRoot},
        form \in {NoForm, FormMethod(mHelloNoArgs), FormBoth(mMissing, <<"World">>)}}
    \cup {Request("GET", sRoot, <<>>, NoForm, TRUE, BadBody)}

\* requests with a body: the verb, the path, the content type, the query
\* string and the body vary
BodyRequests ==
    {Request("POST", path, sApplicationJson, form, FALSE, body) :
        path \in {sRpc, sRoot},
        form \in {NoForm, FormMethod(mHelloNoArgs)},
        body \in {BadBody, Body(<<>>, NoParams),
                  Body(mLowerSay, WhoWorld), Body(mHelloSay, WhoWorld)}}
    \cup {Request("POST", sRoot, sApplicationJson, NoForm, FALSE, body) :
        body \in {Body(mMissing, NoParams),
                  Body(mDotSay, NoParams),
                  Body(mCalcDiv, Object([a |-> JString("x")])),
                  Body(mCalcDiv, Object([a |-> JNumber(1), b |-> JNumber(2)])),
                  Body(mHelloSay, [kind |-> "number"]),
                  Body(mCalcNop, [kind |-> "number"]),
                  Body(mCalcNop, NoParams),
                  Body(mCalcInc, [kind |-> "number"]),
                  Body(mCalcInc, NoParams)}}
    \cup {Request("GET", sRpcSlash \o mCalcNop, <<>>, NoForm, TRUE, BadBody),
          Request("GET", sRpcSlash \o mCalcWatch, <<>>, NoForm, FALSE, BadBody),
          Request("POST", sRpcSlash \o mHelloNoArgs, sApplicationJson,
                  NoForm, FALSE, BadBody)}
    \cup {Request(verb, path, sJsonCharset, NoForm, FALSE, Body(mHelloNoArgs, WhoWorld)) :
        verb \in Verbs \ {"GET"},
        path \in {sRpcSlash \o mHelloSay, sApi \o mHelloSay}}
    \cup {Request("POST", sRpcSlash \o mHelloSay, ct, NoForm, FALSE, body) :
        ct \in {<<>>, sTextXml},
        body \in {BadBody, Body(mHelloNoArgs, WhoWorld)}}

Requests == GetRequests \cup BodyRequests

\* can a registered method return an error
SomeMethodFails ==
    \E n \in DOMAIN services : \E k \in DOMAIN services[n].methods :
        services[n].methods[k].method.fails

\* the codec keys a range over the codec map may visit first, where
\* ServeHTTP takes the first one visited
Picks ==
    IF DOMAIN codecs = {} THEN {<<>>}
    ELSE IF Cardinality(DOMAIN codecs) > 1 /\ sApplicationJson \notin DOMAIN codecs
    THEN DOMAIN codecs
    ELSE {CHOOSE k \in DOMAIN codecs : TRUE}

\* the results the registered hooks and methods may give
Outcomes ==
    [pick : Picks,
     intercept : IF interceptFunc THEN {Nil, "r2"} ELSE {Nil},
     validateErr : IF validateFunc THEN BOOLEAN ELSE {FALSE},
     methodErr : IF SomeMethodFails THEN BOOLEAN ELSE {FALSE}]

\* the outcomes in which no hook and no method returns anything special
Plain == [pick : Picks, intercept : {Nil}, validateErr : {FALSE}, methodErr : {FALSE}]

-----------------------------------------------------------------------------
(* State machine                                                           *)

\* the Server the handler reads
Server ==
    [services |-> services, codecs |-> codecs, allowedMethods |-> allowedMethods,
     interceptFunc |-> interceptFunc, beforeFunc |-> beforeFunc,
     afterFunc |-> afterFunc, validateFunc |-> validateFunc]

Idle == [op |-> "idle"]

\* NewServer
Init ==
    /\ services = [n \in {} |-> Nil]
    /\ codecs = [k \in {} |-> Nil]
    /\ allowedMethods = DefaultMethods
    /\ interceptFunc = FALSE
    /\ beforeFunc = FALSE
    /\ afterFunc = FALSE
    /\ validateFunc = FALSE
    /\ phase = "setup"
    /\ disabled = {}
    /\ ret = Idle
    /\ inflight = [t \in {} |-> Nil]

\* Server.RegisterService
RegisterService(rcvr, name) ==
    /\ phase = "setup"
    /\ ret = Idle
    /\ LET res == register(services, rcvr, name)
       IN  /\ services' = res.services
           /\ ret' = [op |-> "RegisterService", rcvr |-> rcvr.typeName,
                      name |-> name, err |-> res.err,
                      suitable |-> Cardinality({m \in rcvr.methods : Suitable(m)})]
    /\ UNCHANGED inflight
    /\ UNCHANGED <<codecs, allowedMethods, interceptFunc, beforeFunc, afterFunc,
                   validateFunc, phase, disabled>>

\* Server.RegisterCodec, with the JSON codec
RegisterCodec(contentType) ==
    /\ phase = "setup"
    /\ codecs' = [k \in DOMAIN codecs \cup {ToLower(contentType)} |-> "json"]
    /\ ret' = Idle
    /\ UNCHANGED inflight
    /\ UNCHANGED <<services, allowedMethods, interceptFunc, beforeFunc, afterFunc,
                   validateFunc, phase, disabled>>

RegisterInterceptFunc ==
    /\ phase = "setup"
    /\ interceptFunc' = TRUE
    /\ ret' = Idle
    /\ UNCHANGED inflight
    /\ UNCHANGED <<services, codecs, allowedMethods, beforeFunc, afterFunc,
                   validateFunc, phase, disabled>>

RegisterBeforeFunc ==
    /\ phase = "setup"
    /\ beforeFunc' = TRUE
    /\ ret' = Idle
    /\ UNCHANGED inflight
    /\ UNCHANGED <<services, codecs, allowedMethods, interceptFunc, afterFunc,
                   validateFunc, phase, disabled>>

RegisterValidateRequestFunc ==
    /\ phase = "setup"
    /\ validateFunc' = TRUE
    /\ ret' = Idle
    /\ UNCHANGED inflight
    /\ UNCHANGED <<services, codecs, allowedMethods, interceptFunc, beforeFunc,
                   afterFunc, phase, disabled>>

RegisterAfterFunc ==
    /\ phase = "setup"
    /\ afterFunc' = TRUE
    /\ ret' = Idle
    /\ UNCHANGED inflight
    /\ UNCHANGED <<services, codecs, allowedMethods, interceptFunc, beforeFunc,
                   validateFunc, phase, disabled>>

\* the body shared by DisableGET, DisablePOST, DisablePUT and DisableDelete
Disable(verb) ==
    /\ phase = "setup"
    /\ allowedMethods' = removeMethod(allowedMethods, verb)
    /\ disabled' = disabled \cup {verb}
    /\ ret' = Idle
    /\ UNCHANGED inflight
    /\ UNCHANGED <<services, codecs, interceptFunc, beforeFunc, afterFunc,
                   validateFunc, phase>>

DisableGET == Disable("GET")
DisablePOST == Disable("POST")
DisablePUT == Disable("PUT")
DisableDelete == Disable("DELETE")

\* main: http.ListenAndServe, after which requests are handled
ListenAndServe ==
    /\ phase = "setup"
    /\ phase' = "serving"
    /\ ret' = Idle
    /\ UNCHANGED inflight
    /\ UNCHANGED config

\* one request handled by Server.ServeHTTP from start to end
Serve(r) ==
    /\ phase = "serving"
    /\ ret = Idle
    /\ \E p \in Plain :
          LET plain == ServeHTTP(Server, r, p)
          IN  \* the hooks' and the method's results matter only to a call
              \* that resolves a method and gets past argument decoding
              \E nd \in IF plain.method = <<>> THEN {p}
                         ELSE {o \in Outcomes : o.pick = p.pick} :
                  ret' = [op |-> "ServeHTTP", r |-> r,
                          out |-> ServeHTTP(Server, r, nd)]
    /\ UNCHANGED inflight
    /\ UNCHANGED <<config, phase>>

\* a call of serviceMap.get (as Server.HasMethod makes): the error, and
\* the names of the service and the method found
Get(name) ==
    /\ ret = Idle
    /\ LET g == get(services, name)
       IN  ret' = [op |-> "get", name |-> name, err |-> g.err,
                   service |-> IF g.err = NoErr THEN g.service.name ELSE <<>>,
                   method |-> IF g.err = NoErr THEN g.method.method.name ELSE <<>>]
    /\ UNCHANGED inflight
    /\ UNCHANGED <<config, phase>>

\* the call has returned: its result (for a request, the response and the
\* per-request state) is dropped
Finish ==
    /\ ret # Idle
    /\ ret' = Idle
    /\ UNCHANGED inflight
    /\ UNCHANGED <<config, phase>>

Next ==
    \/ \E c \in ServeCandidates : RegisterService(c[1], c[2])
    \/ \E ct \in CodecTypes : RegisterCodec(ct)
    \/ RegisterInterceptFunc
    \/ RegisterBeforeFunc
    \/ RegisterValidateRequestFunc
    \/ RegisterAfterFunc
    \/ DisableGET
    \/ DisablePOST
    \/ DisablePUT
    \/ DisableDelete
    \/ ListenAndServe
    \/ \E r \in Requests : Serve(r)
    \/ Finish

Spec == Init /\ [][Next]_vars

\* the registry alone: services are registered and names are looked up
NextRegistry ==
    \/ \E c \in RegCandidates : RegisterService(c[1], c[2])
    \/ \E name \in LookupNames : Get(name)
    \/ Finish

SpecRegistry == Init /\ [][NextRegistry]_vars

-----------------------------------------------------------------------------
(* Requests handled concurrently                                           *)

\* the most ServeHTTP calls in progress at a time
MaxTasks == 2

Tasks == 1..MaxTasks

\* a ServeHTTP call that has just started: its request, the results its
\* hooks and method will give, where it is, and what it has in hand
NewTask(r, nd) ==
    [r |-> r, nd |-> nd, pc |-> "verb", methodFromPath |-> <<>>,
     c |-> CodecRequest(NoRequest, NoErr),
     out |-> Out(FALSE, NoResponse, <<>>, <<>>)]

\* a call that has returned or panicked with out
Done(t, out) == [t EXCEPT !.pc = "done", !.out = out]

\* ServeHTTP, the verb check, reading s.allowedMethods
StepVerb(S, t) ==
    IF ~methodAllowed(S, t.r)
    THEN Done(t, Return(<<>>, WriteError(NoResponse, StatusMethodNotAllowed,
                    "rpc: only %s methods are allowed, received %s",
                    <<t.r.verb>>, Join(S.allowedMethods, ","))))
    ELSE [t EXCEPT !.pc = "path"]

\* ServeHTTP, the name in the path, reading s.services
StepPath(S, t) ==
    LET rest == TrimPrefix(t.r.path, sRpcSlash)
        p == MethodFromPath(S, t.r)
        log == IF HasPrefix(t.r.path, sRpcSlash) /\ rest # <<>>
               THEN <<LookupPathEv(rest)>> ELSE <<>>
    IN  IF p.panic THEN Done(t, Crash(log))
        ELSE IF p.err # NoErr
        THEN Done(t, Return(log, WriteError(NoResponse, StatusNotFound,
                                p.err.msg, p.err.arg, <<>>)))
        ELSE [t EXCEPT !.pc = "codec", !.methodFromPath = p.method,
                       !.out = Out(FALSE, NoResponse, log, <<>>)]

\* ServeHTTP, codec selection and codec.NewRequest, reading s.codecs
StepCodec(S, t) ==
    LET sel == SelectCodec(S, t.r, t.nd.pick)
        log == t.out.log
    IN  IF ~sel.ok
        THEN Done(t, Return(log, WriteError(NoResponse, StatusUnsupportedMediaType,
                                "rpc: unrecognized Content-Type: ",
                                sel.contentType, <<>>)))
        ELSE IF sel.codec = Nil THEN Done(t, Crash(log))
        ELSE LET nr == NewRequest(t.r)
             IN  IF nr.panic THEN Done(t, Crash(log \o <<CodecEv>>))
                 ELSE [t EXCEPT !.pc = "dispatch", !.c = nr.c,
                                !.out = Out(FALSE, NoResponse, log \o <<CodecEv>>, <<>>)]

\* ServeHTTP from the codec request on, reading s.services and the hooks
StepDispatch(S, t) ==
    Done(t, Dispatch(S, t.nd, t.out.log, t.methodFromPath, t.c))

\* the next stretch of a ServeHTTP call, up to its next read of the Server
Step(S, t) ==
    CASE t.pc = "verb" -> StepVerb(S, t)
      [] t.pc = "path" -> StepPath(S, t)
      [] t.pc = "codec" -> StepCodec(S, t)
      [] t.pc = "dispatch" -> StepDispatch(S, t)

\* a ServeHTTP that keeps the codec it selected under the content type of
\* the request
Stored_CachesCodec(S, t) ==
    IF t.pc = "codec" /\ DOMAIN S.codecs # {}
    THEN [S EXCEPT !.codecs =
             [k \in DOMAIN S.codecs \cup {ToLower(StripParams(t.r.contentType))} |->
                 "json"]]
    ELSE S

\* the fields of the Server after a stretch of ServeHTTP: ServeHTTP assigns
\* to none of them
Stored(S, t) == S

\* net/http starts a goroutine that calls ServeHTTP with request r
Accept(id, r) ==
    /\ phase = "serving"
    /\ ret = Idle
    /\ id \notin DOMAIN inflight
    /\ \E nd \in Outcomes :
          inflight' = [k \in DOMAIN inflight \cup {id} |->
                          IF k = id THEN NewTask(r, nd) ELSE inflight[k]]
    /\ UNCHANGED <<config, phase, ret>>

\* the goroutine id runs ServeHTTP up to its next read of the Server
Advance(id) ==
    /\ id \in DOMAIN inflight
    /\ inflight[id].pc # "done"
    /\ inflight' = [inflight EXCEPT ![id] = Step(Server, inflight[id])]
    /\ LET S == Stored(Server, inflight[id])
       IN  /\ services' = S.services
           /\ codecs' = S.codecs
           /\ allowedMethods' = S.allowedMethods
           /\ interceptFunc' = S.interceptFunc
           /\ beforeFunc' = S.beforeFunc
           /\ afterFunc' = S.afterFunc
           /\ validateFunc' = S.validateFunc
    /\ UNCHANGED <<phase, disabled, ret>>

\* the goroutine id ends; its per-request state is dropped
Close(id) ==
    /\ id \in DOMAIN inflight
    /\ inflight[id].pc = "done"
    /\ inflight' = [k \in DOMAIN inflight \ {id} |-> inflight[k]]
    /\ UNCHANGED <<config, phase, ret>>

\* the requests handled concurrently
ConcurrentRequests ==
    {Request("GET", sRpcSlash \o mHelloSay, <<>>, FormWho(<<"World">>), FALSE, BadBody),
     Request("GET", sRpcSlash \o mMissing, <<>>, NoForm, FALSE, BadBody),
     Request("POST", sRoot, sApplicationJson, NoForm, FALSE, Body(mHelloSay, WhoWorld)),
     Request("POST", sRoot, sTextXml, NoForm, FALSE, Body(mHelloNoArgs, NoParams)),
     Request("PUT", sRpcSlash \o mHelloNoArgs, <<>>, NoForm, FALSE, BadBody)}

NextConcurrent ==
    \/ RegisterService(HelloServiceRcvr, <<>>)
    \/ RegisterCodec(sApplicationJson)
    \/ RegisterAfterFunc
    \/ DisableGET
    \/ ListenAndServe
    \/ \E id \in Tasks, r \in ConcurrentRequests : Accept(id, r)
    \/ \E id \in Tasks : Advance(id)
    \/ \E id \in Tasks : Close(id)

SpecConcurrent == Init /\ [][NextConcurrent]_vars

-----------------------------------------------------------------------------
(* Properties                                                              *)

\* a request has just been handled
Handled == ret.op = "ServeHTTP"

\* the positions of the log entries of a step
At(log, ev) == {i \in DOMAIN log : log[i].ev = ev}
Count(log, ev) == Cardinality(At(log, ev))

HookEvs == {"intercept", "before", "validate", "invoke", "after"}

\* no hook and no method was called
NothingCalled(log) == \A i \in DOMAIN log : log[i].ev \notin HookEvs

VerbAllowed(verb) == \E i \in DOMAIN allowedMethods : allowedMethods[i] = verb

\* the request carries a name after the /rpc/ prefix
ViaPath(r) == HasPrefix(r.path, sRpcSlash) /\ Len(r.path) > Len(sRpcSlash)
PathName(r) == SubSeq(r.path, Len(sRpcSlash) + 1, Len(r.path))

\* the last non-empty segment of the path, "" when there is none
RECURSIVE LastSegment(_)
LastSegment(path) ==
    IF path = <<>> THEN <<>>
    ELSE IF path[Len(path)] = "/" THEN LastSegment(SubSeq(path, 1, Len(path) - 1))
    ELSE LET i == CHOOSE k \in 0..Len(path) :
                      /\ k = 0 \/ path[k] = "/"
                      /\ \A j \in (k + 1)..Len(path) : path[j] # "/"
         IN  SubSeq(path, i + 1, Len(path))

\* a codec is found for the request
CodecFound(r) ==
    IF r.verb = "GET" THEN DOMAIN codecs # {}
    ELSE \/ StripParams(r.contentType) = <<>> /\ Cardinality(DOMAIN codecs) = 1
         \/ ToLower(StripParams(r.contentType)) \in DOMAIN codecs

\* HelloService is registered under its type name
HelloRegistered ==
    /\ sHelloService \in DOMAIN services
    /\ services[sHelloService].rcvr = sHelloService

\* C1 (as claimed): for every request answered with an after hook
\* registered, whatever the outcome, the after hook is called exactly once
\* and after the response was written.
C1_AfterOncePerRequest ==
    (Handled /\ afterFunc /\ ret.out.w.written) =>
        LET log == ret.out.log
        IN  /\ Count(log, "after") = 1
            /\ \A a \in At(log, "after") : \E i \in At(log, "write") : i < a

\* C2: a validate error keeps the method from being called and is the
\* outcome of the request (400, error body, no result); validate is called
\* once for a method with args and never for a NoArgs method, which is
\* called.
C2_ValidateErrorSkipsMethod ==
    (Handled /\ validateFunc /\ ret.out.method # <<>>) =>
        LET log == ret.out.log
            w == ret.out.w
            spec == get(services, ret.out.method).method
        IN  /\ spec.noArgs =>
                  Count(log, "validate") = 0 /\ Count(log, "invoke") = 1
            /\ ~spec.noArgs => Count(log, "validate") = 1
            /\ \A i \in At(log, "validate") :
                  log[i].err # NoErr =>
                      /\ Count(log, "invoke") = 0
                      /\ w.written /\ w.status = StatusBadRequest
                      /\ w.body.kind = "json"
                      /\ w.body.result = JsonNull
                      /\ w.body.error = [null |-> FALSE, value |-> log[i].err]

C2_Witness ==
    /\ Handled /\ validateFunc
    /\ \E i \in At(ret.out.log, "validate") : ret.out.log[i].err # NoErr
    /\ Count(ret.out.log, "invoke") = 0
    /\ ret.out.w.status = StatusBadRequest

\* the two requests of the example program's usage text
HelloGet ==
    Request("GET", sRpcSlash \o mLowerSay, <<>>, FormWho(<<"World">>), FALSE, BadBody)
HelloPost ==
    Request("POST", sRpc, sApplicationJson, NoForm, FALSE, Body(mLowerSay, WhoWorld))

\* C3 (as claimed): with HelloService registered under its type name and
\* the JSON codec registered, "helloservice.say" is answered 200 with the
\* message "Hello, World!" and a null error, by path and by body.
C3_LowercaseNameResolves ==
    (/\ Handled /\ HelloRegistered /\ sApplicationJson \in DOMAIN codecs
     /\ VerbAllowed(ret.r.verb) /\ ~validateFunc
     /\ ret.r \in {HelloGet, HelloPost}) =>
        /\ ret.out.w.written /\ ret.out.w.status = StatusOK
        /\ ret.out.w.body.kind = "json"
        /\ ret.out.w.body.result =
               [null |-> FALSE, value |-> [message |-> <<"Hello, ", "World", "!">>]]
        /\ ret.out.w.body.error = JsonNull

\* C4 (as claimed): every request ends with a response written, none in a
\* panic.
C4_AlwaysResponds ==
    Handled => ~ret.out.panic /\ ret.out.w.written

\* the verbs a 405 body lists
ListedVerbs(list) == SelectSeq(list, LAMBDA x : x # ",")

\* C5: the allow-list is the default list without the disabled verbs, in
\* order; a request whose verb is not in it gets a plain-text 405 listing
\* exactly the remaining verbs, and nothing else is done for it.
C5_AllowList ==
    /\ allowedMethods = SelectSeq(DefaultMethods, LAMBDA v : v \notin disabled)
    /\ (Handled /\ ~VerbAllowed(ret.r.verb)) =>
          /\ ~ret.out.panic
          /\ ret.out.w.written /\ ret.out.w.status = StatusMethodNotAllowed
          /\ ret.out.w.contentType = "text/plain; charset=utf-8"
          /\ ret.out.w.body.kind = "text"
          /\ ListedVerbs(ret.out.w.body.list) = allowedMethods
          /\ ret.out.log = <<WriteEv(ret.out.w)>>
    /\ (Handled /\ VerbAllowed(ret.r.verb) /\ ret.out.w.written) =>
          ret.out.w.status # StatusMethodNotAllowed

C5_Witness ==
    /\ Handled /\ ret.r.verb = "GET" /\ disabled = {"GET", "PUT"}
    /\ ret.out.w.status = StatusMethodNotAllowed
    /\ ListedVerbs(ret.out.w.body.list) = <<"POST", "DELETE">>

\* the name a request gives outside the /rpc/ prefix: the last path
\* segment, else the method field of the query string
UrlName(r) ==
    IF LastSegment(r.path) # <<>> THEN LastSegment(r.path)
    ELSE FormGet(r.form, "method")

\* the request has a body that decodes and names a method
BodyNames(r) == r.verb # "GET" /\ r.body.ok /\ r.body.method # <<>>

\* the name the codec is to return: for GET the URL's name; for the other
\* verbs the body's method when the body decodes and names one, else the
\* URL's name
SuppliedName(r) == IF BodyNames(r) THEN r.body.method ELSE UrlName(r)

\* the first non-empty of the last path segment, the query's method field
\* and the body's method field
UrlFirstName(r) ==
    IF UrlName(r) # <<>> THEN UrlName(r)
    ELSE IF r.body.ok THEN r.body.method ELSE <<>>

\* C6 (as claimed): an unregistered name is answered 404 when it comes in
\* the /rpc/<name> path and 400 when it comes in the body or the query
\* string; the error text names it and nothing is called.
C6_UnknownMethodIsAnswered ==
    (Handled /\ VerbAllowed(ret.r.verb) /\ ~ret.r.formErr) =>
        LET r == ret.r
            w == ret.out.w
        IN  /\ (ViaPath(r) /\ get(services, PathName(r)).err # NoErr) =>
                  /\ w.written /\ w.status = StatusNotFound
                  /\ w.body.kind = "text" /\ w.body.arg = PathName(r)
                  /\ NothingCalled(ret.out.log)
            /\ (/\ ~ViaPath(r) /\ CodecFound(r)
                /\ BodyNames(r) \/ LastSegment(r.path) = <<>>
                /\ SuppliedName(r) # <<>>
                /\ get(services, SuppliedName(r)).err # NoErr) =>
                  /\ w.written /\ w.status = StatusBadRequest
                  /\ w.body.kind = "json"
                  /\ ToLower(w.body.error.value.arg) = ToLower(SuppliedName(r))
                  /\ NothingCalled(ret.out.log)

\* the registered method a name resolves to
TargetOf(name) ==
    LET g == get(services, name)
    IN  Dotted(g.service.name, g.method.method.name)

\* C7: when the path carries a name after /rpc/ that the registry
\* resolves, the codec is not asked for a name, the hooks get the path's
\* name and the method called is the one the path's name resolves to, for
\* every verb and whatever the body or the query string names.
C7_PathNameWins ==
    (Handled /\ ViaPath(ret.r) /\ get(services, PathName(ret.r)).err = NoErr) =>
        LET log == ret.out.log
        IN  /\ Count(log, "lookup-codec") = 0
            /\ \A i \in DOMAIN log :
                  log[i].ev \in HookEvs =>
                      ToLower(log[i].method) = ToLower(PathName(ret.r))
            /\ \A i \in At(log, "invoke") : log[i].target = TargetOf(PathName(ret.r))

C7_Witness ==
    /\ Handled /\ ret.r.verb = "PUT"
    /\ ret.r.path = sRpcSlash \o mHelloSay
    /\ ret.r.body.ok /\ ret.r.body.method = mHelloNoArgs
    /\ get(services, mHelloNoArgs).err = NoErr
    /\ \E i \in At(ret.out.log, "invoke") : ret.out.log[i].target = mHelloSay

\* C8 (as claimed): without a /rpc/ name, the name dispatched on is the
\* first non-empty of last path segment, query method field and body
\* method field, for every verb.
C8_UrlNameBeforeBody ==
    Handled =>
        \A i \in At(ret.out.log, "lookup-codec") :
            ToLower(ret.out.log[i].method) = ToLower(UrlFirstName(ret.r))

\* C8 (amended): without a /rpc/ name, a GET is dispatched on the last
\* non-empty path segment, else on the query's method field; a POST, PUT
\* or DELETE is dispatched on the method field of its body when the body
\* decodes and names one, and only otherwise on the URL's name.
C8_BodyNameBeforeUrl ==
    Handled =>
        /\ \A i \in At(ret.out.log, "lookup-codec") :
              ToLower(ret.out.log[i].method) = ToLower(SuppliedName(ret.r))
        /\ Count(ret.out.log, "lookup-codec") <= 1
        /\ ViaPath(ret.r) => Count(ret.out.log, "lookup-codec") = 0

C8_Witness ==
    /\ Handled /\ ret.r.verb = "POST"
    /\ LastSegment(ret.r.path) = ToLower(sNoArgs) \/ LastSegment(ret.r.path) = Tail(sRpc)
    /\ ret.r.body.ok /\ ret.r.body.method = mHelloSay
    /\ \E i \in At(ret.out.log, "lookup-codec") : ret.out.log[i].method = mHelloSay
    /\ \E i \in At(ret.out.log, "invoke") : ret.out.log[i].target = mHelloSay

\* a name has just been looked up
Looked == ret.op = "get"

\* only letters, digits and underscores
IdentLike(s) == \A i \in DOMAIN s : IsLetter(s[i]) \/ s[i] \in Digits \/ s[i] = "_"

\* found differs from given at most in letters that begin a word of given
\* (the first character, or one after a character that is no letter, digit
\* or underscore), which found has in upper case
WordStartsRaised(given, found) ==
    /\ Len(found) = Len(given)
    /\ \A i \in DOMAIN given :
          found[i] # given[i] =>
              /\ i = 1 \/ ~IdentLike(<<given[i - 1]>>)
              /\ IsLower(given[i]) /\ ToLower(<<found[i]>>) = <<given[i]>>
              /\ IsUpper(found[i])

\* the lookup of name succeeds and finds this service and method
Finds(name, service, method) ==
    LET g == get(services, name)
    IN  g.err = NoErr /\ g.service.name = service /\ g.method.method.name = method

\* the name with the first letter of each of its two segments raised
Capitalized(name) ==
    LET parts == Split(name, ".")
    IN  Dotted(CapFirst(parts[1]), CapFirst(parts[2]))

ResolvedName(call) == IF call.name # <<>> THEN call.name ELSE call.rcvr

\* C10: a register call whose resolved name is already registered, or whose
\* receiver has no suitable method, returns an error, and a call that
\* returns an error leaves the registry as it was; a call that succeeds
\* adds exactly the one new entry and leaves the others alone.
C10_RegisterFailsCleanly ==
    [][(ret'.op = "RegisterService" /\ ret' # ret) =>
          LET sname == ResolvedName(ret')
          IN  /\ (sname \in DOMAIN services \/ ret'.suitable = 0) => ret'.err # Nil
              /\ ret'.err # Nil => services' = services
              /\ ret'.err = Nil =>
                    /\ sname \notin DOMAIN services
                    /\ DOMAIN services' = DOMAIN services \cup {sname}
                    /\ \A n \in DOMAIN services : services'[n] = services[n]
                    /\ services'[sname].name = sname
                    /\ services'[sname].rcvr = ret'.rcvr]_vars

C10_Witness ==
    /\ ret.op = "RegisterService" /\ ret.err = ErrAlreadyDefined
    /\ ret.name = sAb /\ ret.rcvr = sCalc
    /\ services[sAb].rcvr = sHelloService

\* the method name ServeHTTP held once the name was resolved: the result of
\* its last getNormalizedMethod call, "" when there was none or it failed
Resolved(log) ==
    LET L == At(log, "lookup-path") \cup At(log, "lookup-codec")
    IN  IF L = {} THEN <<>>
        ELSE LET i == CHOOSE k \in L : \A j \in L : j <= k
                 nm == getNormalizedMethod(Server, log[i].method)
             IN  IF nm.panic \/ nm.err # NoErr THEN <<>> ELSE nm.method

\* the request got as far as a registered method: a codec request was
\* made, the name was resolved and the registry has it
Reached ==
    /\ Handled
    /\ Count(ret.out.log, "codec") = 1
    /\ Resolved(ret.out.log) # <<>>
    /\ get(services, Resolved(ret.out.log)).err = NoErr

\* the serviceMethod the request got to
ReachedSpec == get(services, Resolved(ret.out.log)).method

\* the args type has at least one exported field
ArgsHaveExportedField(t) == t.kind = "struct" /\ DOMAIN t.fields # {}

\* C11 (as claimed): arguments are decoded only for a method with args; a
\* decode failure is answered 400 with nothing called exactly when the args
\* type has an exported field, and otherwise ignored, the hooks and the
\* method running as usual; a NoArgs method is called without any decoding.
C11_DecodeFailureFatalIffFields ==
    Reached =>
        LET log == ret.out.log
            w == ret.out.w
            spec == ReachedSpec
        IN  /\ Count(log, "decode") = (IF spec.noArgs THEN 0 ELSE 1)
            /\ \A i \in At(log, "decode") :
                  log[i].err # NoErr =>
                      IF ArgsHaveExportedField(spec.argsType)
                      THEN /\ ~ret.out.panic
                           /\ w.written /\ w.status = StatusBadRequest
                           /\ w.body.kind = "json" /\ w.body.result = JsonNull
                           /\ w.body.error = [null |-> FALSE, value |-> log[i].err]
                           /\ NothingCalled(log)
                           /\ log[Len(log)] = WriteEv(w) /\ Count(log, "write") = 1
                      ELSE /\ ~ret.out.panic
                           /\ Count(log, "invoke") = 1 \/ Count(log, "validate") = 1
                           /\ w.written
            /\ \A i \in At(log, "decode") :
                  log[i].err = NoErr =>
                      Count(log, "invoke") = 1 \/ Count(log, "validate") = 1
            /\ spec.noArgs =>
                  /\ ~ret.out.panic
                  /\ Count(log, "invoke") = 1
                  /\ w.written
                  /\ \A i \in At(log, "invoke") :
                        /\ \E j \in At(log, "write") : i < j
                        /\ (log[i].err = NoErr /\ w.body.kind = "json") =>
                              w.status = StatusOK /\ w.body.error = JsonNull

\* C11 but for the requests whose handler panicked
C11_UnlessPanic == C11_DecodeFailureFatalIffFields \/ ret.out.panic

\* the hook chain ran: validate or the method was called
Invoked == Handled /\ ret.out.method # <<>>

\* the outcome error of the hook chain: the method's when it was called,
\* else the error validate returned
OutcomeErr(log) ==
    IF At(log, "invoke") # {}
    THEN log[CHOOSE i \in At(log, "invoke") : TRUE].err
    ELSE log[CHOOSE i \in At(log, "validate") : TRUE].err

\* C12 (as claimed): once validate or the method ran, a nil outcome error
\* gives 200 with the reply as result and a null error, a non-nil one gives
\* 400 with a null result and the error; the after hook is given the status
\* and the error of the response written.
C12_StatusFromOutcome ==
    Invoked =>
        LET log == ret.out.log
            w == ret.out.w
            e == OutcomeErr(log)
        IN  /\ w.written
            /\ e = NoErr =>
                  /\ w.status = StatusOK
                  /\ w.body.kind = "json"
                  /\ ~w.body.result.null /\ w.body.error = JsonNull
            /\ e # NoErr =>
                  /\ w.status = StatusBadRequest
                  /\ w.body.kind = "json"
                  /\ w.body.result = JsonNull
                  /\ w.body.error = [null |-> FALSE, value |-> e]
            /\ \A a \in At(log, "after") :
                  log[a].status = w.status /\ log[a].err = e

\* C12 but for the replies json.Marshal cannot encode
C12_UnlessUnencodable ==
    C12_StatusFromOutcome
        \/ \E f \in DOMAIN ReachedSpec.replyType.fields :
              ReachedSpec.replyType.fields[f] = "chan"

\* the step at position i found a failure that ends the request: a failed
\* decode for args with an exported field, or an error from validate or
\* from the method
FailsAt(log, i) ==
    /\ log[i].err # NoErr
    /\ \/ log[i].ev \in {"validate", "invoke"}
       \/ /\ log[i].ev = "decode"
          /\ ArgsHaveExportedField(ReachedSpec.argsType)

\* C13: a ServeHTTP call writes at most one response, which is wholly a
\* success body or wholly an error body; a failure is followed at once by
\* the error response, after which nothing runs but the after hook, and a
\* request refused before the hooks ends with its response.
C13_OneResponse ==
    Handled =>
        LET log == ret.out.log
            w == ret.out.w
        IN  /\ Count(log, "write") <= 1
            /\ w.written <=> Count(log, "write") = 1
            /\ \A i \in At(log, "write") :
                  /\ log[i].status = w.status
                  /\ \A j \in DOMAIN log : j > i => log[j].ev = "after"
            /\ w.written =>
                  \/ /\ w.body.kind = "json" /\ w.status = StatusOK
                     /\ ~w.body.result.null /\ w.body.error = JsonNull
                  \/ /\ w.body.kind = "json" /\ w.status = StatusBadRequest
                     /\ w.body.result = JsonNull /\ ~w.body.error.null
                  \/ /\ w.body.kind = "text" /\ w.status # StatusOK
            /\ \A i \in DOMAIN log :
                  FailsAt(log, i) =>
                      /\ i < Len(log) /\ log[i + 1].ev = "write"
                      /\ w.status = StatusBadRequest
                      /\ w.body.kind = "json" /\ w.body.result = JsonNull
            /\ (w.written /\ ret.out.method = <<>>) =>
                  /\ log[Len(log)].ev = "write" /\ NothingCalled(log)
                  /\ w.status # StatusOK

C13_Witness ==
    /\ Handled /\ ret.out.w.written /\ ret.out.w.status = StatusBadRequest
    /\ \E i \in At(ret.out.log, "decode") :
          /\ ret.out.log[i].err # NoErr
          /\ i + 1 = Len(ret.out.log)
          /\ ret.out.log[i + 1].ev = "write"

\* the place of a step in the hook chain, 0 for the steps before it
Rank(ev) ==
    CASE ev = "intercept" -> 1
      [] ev = "before" -> 2
      [] ev = "validate" -> 3
      [] ev = "invoke" -> 4
      [] ev = "write" -> 5
      [] ev = "after" -> 6
      [] OTHER -> 0

\* the request handle the hooks after intercept are to see: the one the
\* intercept function returned when it returned one, else the original
Seen(log) ==
    IF \E i \in At(log, "intercept") : log[i].target # Nil
    THEN log[CHOOSE i \in At(log, "intercept") : TRUE].target
    ELSE "r"

\* C14: once a request got past decoding, each registered hook and the
\* method run at most once, in the order intercept, before, validate,
\* method, response write, after; intercept is given the original request,
\* and before, validate, the method and after the replacement intercept
\* returned, if it returned one.
C14_HookOrder ==
    Invoked =>
        LET log == ret.out.log
            spec == get(services, ret.out.method).method
            n(b) == IF b THEN 1 ELSE 0
        IN  /\ Count(log, "intercept") = n(interceptFunc)
            /\ Count(log, "before") = n(beforeFunc)
            /\ Count(log, "validate") = n(validateFunc /\ ~spec.noArgs)
            /\ Count(log, "invoke") <= 1
            /\ Count(log, "write") = 1
            /\ Count(log, "after") = n(afterFunc)
            /\ \A i, j \in DOMAIN log :
                  (i < j /\ Rank(log[i].ev) > 0) =>
                      Rank(log[i].ev) < Rank(log[j].ev)
            /\ \A i \in At(log, "intercept") : log[i].req = "r"
            /\ \A i \in DOMAIN log :
                  log[i].ev \in {"before", "validate", "invoke", "after"} =>
                      log[i].req = Seen(log)

C14_Witness ==
    /\ Invoked
    /\ interceptFunc /\ beforeFunc /\ validateFunc /\ afterFunc
    /\ Seen(ret.out.log) = "r2"
    /\ \A ev \in HookEvs : Count(ret.out.log, ev) = 1
    /\ \E i \in At(ret.out.log, "after") : ret.out.log[i].req = "r2"

\* C15: while requests are handled, no step of any ServeHTTP call changes
\* the registry, the codec table, the allow-list or a hook slot, and every
\* call that ends, however its steps were interleaved with those of other
\* calls, leaves the method, status, response and steps it would have had
\* if handled alone.
C15_HandlingLeavesConfig ==
    [][phase = "serving" =>
          /\ config' = config
          /\ \A id \in DOMAIN inflight' :
                inflight'[id].pc = "done" =>
                    inflight'[id].out =
                        ServeHTTP(Server', inflight'[id].r, inflight'[id].nd)]_vars

C15_Witness ==
    /\ DOMAIN inflight = Tasks
    /\ inflight[1].pc = "done" /\ inflight[1].out.w.status = StatusOK
    /\ inflight[2].pc = "dispatch" /\ inflight[2].r # inflight[1].r
    /\ inflight[2].r.verb = "POST"

====
